---- MODULE Spec2Model ----
(***************************************************************************)
(* The single-player reaction game of awesamarth/reaction-time and its     *)
(* pre-signed transaction pool (src/unnamed/part_000, the page component   *)
(* SinglePlayer and the module-level preSignedPool).                       *)
(*                                                                         *)
(* A pool entry is a signed legacy transaction; it is modelled by the two  *)
(* fields that differ between entries, its nonce and its data byte.  The   *)
(* gas price and the gas limit are fetched once and are the same in every  *)
(* entry, so they are left out of the entry.                               *)
(*                                                                         *)
(* The module-level pool outlives the component: it is created when the    *)
(* module is loaded and a later mount of the page finds it as the previous *)
(* mount left it.  Promises that were pending when the page was left still *)
(* settle afterwards.                                                      *)
(***************************************************************************)
EXTENDS Integers, Sequences, FiniteSets, TLC

\* ---------------------------------------------------------------- bounds
\* How many times the page is mounted in one browser session.
MaxMounts == 2
\* Valid clicks are accepted while the cursor is below this, during the first
\* visit of the page ...
MaxTakes == 11
\* ... and while it is below this once the page has been left and opened again.
MaxTakesAfterReturn == 5

\* ------------------------------------------------------ program constants
InitialBatchSize == 10
RefillBatchSize == 10
LowWaterMark == 5
RoundsPerGame == 5
ADJUSTMENT == 100

\* ------------------------------------------------------------ environment
\* The account's transaction count on the ledger when the session starts.
StartCounts == {3}
\* performance.now() - greenTime, rounded, at a valid click.
Elapsed == {340}
\* The measured time of a confirmed broadcast.
TxTimes == {7}

IDLE == "idle"
WAITING == "waiting"
READY == "ready"
CLICKED == "clicked"
FINISHED == "finished"
TOO_EARLY == "too_early"

GameState == {IDLE, WAITING, READY, CLICKED, FINISHED, TOO_EARLY}

VARIABLES
    transactions,        \* preSignedPool.transactions
    currentIndex,        \* preSignedPool.currentIndex
    baseNonce,           \* preSignedPool.baseNonce
    hasTriggeredRefill,  \* preSignedPool.hasTriggeredRefill
    batches,             \* every preSignBatch call so far and the state of its promise
    initPc,              \* where each mount's init() is
    initNonce,           \* the nonce each mount's init() read
    mounts,              \* number of mounts of the page so far
    mounted,             \* the page is on screen
    isReady,             \* component state of the mounted page
    gameState,
    currentRound,
    results,
    timer,               \* the requestAnimationFrame loop of startRound is running
    pending,             \* eth_sendRawTransactionSync requests not yet answered
    lastTake,            \* outcome of the latest getNextTransaction call
    chainCount           \* the ledger's transaction count of the account

poolVars == <<transactions, currentIndex, baseNonce, hasTriggeredRefill>>
initVars == <<initPc, initNonce>>
pageVars == <<isReady, gameState, currentRound, results, timer>>
vars == <<transactions, currentIndex, baseNonce, hasTriggeredRefill, batches,
          initPc, initNonce, mounts, mounted, isReady, gameState, currentRound,
          results, timer, pending, lastTake, chainCount>>

\* The bound on the cursor that applies to the visit in progress.
TakeCap == IF mounts <= 1 THEN MaxTakes ELSE MaxTakesAfterReturn

NoTake == [status |-> "none", nonce |-> -1]

\* The state of the module and of the ledger before the page is first mounted.
Init ==
    /\ transactions = <<>>
    /\ currentIndex = 0
    /\ baseNonce = 0
    /\ hasTriggeredRefill = FALSE
    /\ batches = <<>>
    /\ initPc = [m \in 1..MaxMounts |-> "idle"]
    /\ initNonce = [m \in 1..MaxMounts |-> 0]
    /\ mounts = 0
    /\ mounted = FALSE
    /\ isReady = FALSE
    /\ gameState = IDLE
    /\ currentRound = 0
    /\ results = <<>>
    /\ timer = FALSE
    /\ pending = {}
    /\ lastTake = NoTake
    /\ chainCount \in StartCounts

\* ------------------------------------------------------------ preSignBatch
\* The entries preSignBatch(startNonce, batchSize) signs, in index order:
\* entry i (from 0) has nonce startNonce + i and data byte i + 1.
SignBatch(startNonce, batchSize) ==
    [k \in 1..batchSize |-> [nonce |-> startNonce + (k - 1), data |-> k]]

\* The orders in which the concurrent signTransaction calls of a batch of n
\* may settle: in index order, in reverse, and starting from the second call.
CompletionOrders(n) ==
    {[k \in 1..n |-> k], [k \in 1..n |-> n + 1 - k], [k \in 1..n |-> (k % n) + 1]}

\* Promise.all: every value is stored at the index of its promise as that
\* promise settles, whatever the order of settling.
RECURSIVE Settle(_, _, _)
Settle(values, signed, order) ==
    IF order = <<>>
    THEN values
    ELSE Settle([values EXCEPT ![Head(order)] = signed[Head(order)]], signed, Tail(order))

\* Faulty variant: the values are collected in the order the calls settle.
PromiseAllInCompletionOrder(signed, order) == [k \in DOMAIN order |-> signed[order[k]]]

\* The array `await Promise.all(signingPromises)` yields when the calls
\* settle in `order`.
PromiseAll(signed, order) ==
    Settle([k \in DOMAIN signed |-> [nonce |-> -1, data |-> 0]], signed, order)

\* Faulty variant: each call pushes its own entry, so the entries signed before
\* the failing call stay in the pool.
RejectedKeepsSettled(signed, order, k) == [j \in 1..(k - 1) |-> signed[order[j]]]

\* What preSignBatch has to push when the k-th call to settle rejects: the
\* await throws and the push is not reached.
Rejected(signed, order, k) == <<>>

\* Faulty variant: the new entries are assigned to the pool.
PushReplaces(pool, new) == new

\* preSignedPool.transactions.push(...newTransactions)
Push(pool, new) == pool \o new

\* A call of preSignBatch: its arguments, who called it and its promise.
Batch(kind, owner, startNonce, batchSize) ==
    [kind |-> kind, owner |-> owner, start |-> startNonce, size |-> batchSize,
     state |-> "signing"]

\* The page instance `m` is the one on screen (setState on any other is a no-op).
Live(m) == mounted /\ m = mounts

\* How init() of instance `m` ended, as far as anything can still observe it.
Ended(m, how) == IF Live(m) THEN how ELSE "gone"

\* --------------------------------------------------------- mount / unmount
\* Navigating to /single-player: a new component instance with its initial
\* state, whose effect starts init(), which issues the two startup queries.
\* The module-level pool is not touched.
Mount ==
    /\ ~mounted
    /\ mounts < MaxMounts
    /\ mounts' = mounts + 1
    /\ mounted' = TRUE
    /\ isReady' = FALSE
    /\ gameState' = IDLE
    /\ currentRound' = 0
    /\ results' = <<>>
    /\ timer' = FALSE
    /\ initPc' = [initPc EXCEPT ![mounts + 1] = "query"]
    /\ UNCHANGED <<poolVars, batches, initNonce, pending, lastTake, chainCount>>

\* The BACK link: the component instance is dropped.  Nothing is cancelled:
\* its pending promises still settle, and what they set on the dropped
\* instance is lost.  The state of the dropped instance and the outcome of
\* its finished calls can no longer be observed and are forgotten.
Unmount ==
    /\ mounted
    /\ mounted' = FALSE
    /\ isReady' = FALSE
    /\ gameState' = IDLE
    /\ currentRound' = 0
    /\ results' = <<>>
    /\ timer' = FALSE
    /\ pending' = {[p EXCEPT !.owner = 0, !.round = 0, !.reaction = 0] : p \in pending}
    /\ initPc' = [m \in DOMAIN initPc |->
                     IF initPc[m] \in {"done", "failed"} THEN "gone" ELSE initPc[m]]
    /\ lastTake' = NoTake
    /\ UNCHANGED <<poolVars, batches, initNonce, mounts, chainCount>>

\* -------------------------------------------------------------------- init
\* Promise.all([getTransactionCount, getGasPrice]) resolves: gasPrice and
\* preSignedPool.baseNonce are set, then estimateGas is issued.
InitQueryDone(m) ==
    /\ initPc[m] = "query"
    /\ baseNonce' = chainCount
    /\ initNonce' = [initNonce EXCEPT ![m] = chainCount]
    /\ initPc' = [initPc EXCEPT ![m] = "estimate"]
    /\ UNCHANGED <<transactions, currentIndex, hasTriggeredRefill, batches, mounts,
                   mounted, pageVars, pending, lastTake, chainCount>>

\* estimateGas resolves: gasLimit is set and preSignBatch(nonce, 10) is called.
InitEstimateDone(m) ==
    /\ initPc[m] = "estimate"
    /\ batches' = Append(batches, Batch("init", m, initNonce[m], InitialBatchSize))
    /\ initPc' = [initPc EXCEPT ![m] = "sign"]
    /\ initNonce' = [initNonce EXCEPT ![m] = 0]
    /\ UNCHANGED <<poolVars, mounts, mounted, pageVars, pending, lastTake,
                   chainCount>>

\* A startup query rejects: the catch block of init() logs it.
InitQueryFail(m) ==
    /\ initPc[m] \in {"query", "estimate"}
    /\ initPc' = [initPc EXCEPT ![m] = Ended(m, "failed")]
    /\ initNonce' = [initNonce EXCEPT ![m] = 0]
    /\ UNCHANGED <<poolVars, batches, mounts, mounted, pageVars, pending,
                   lastTake, chainCount>>

\* ---------------------------------------------------------- batch settles
\* What follows `await preSignBatch(...)` in its caller once it has resolved:
\* init() calls setIsReady(true); the refill's then-callback clears the guard.
AfterBatch(b) ==
    IF batches[b].kind = "init"
    THEN /\ initPc' = [initPc EXCEPT ![batches[b].owner] = Ended(batches[b].owner, "done")]
         /\ isReady' = IF Live(batches[b].owner) THEN TRUE ELSE isReady
         /\ UNCHANGED hasTriggeredRefill
    ELSE /\ hasTriggeredRefill' = FALSE
         /\ UNCHANGED <<initPc, isReady>>

\* Faulty variant: init() marks the page ready whether or not signing succeeded.
AfterBatchFailedSetsReady(b) ==
    IF batches[b].kind = "init"
    THEN /\ initPc' = [initPc EXCEPT ![batches[b].owner] = Ended(batches[b].owner, "failed")]
         /\ isReady' = IF Live(batches[b].owner) THEN TRUE ELSE isReady
         /\ UNCHANGED hasTriggeredRefill
    ELSE UNCHANGED <<hasTriggeredRefill, initPc, isReady>>

\* What follows in the caller once preSignBatch has rejected: init() logs the
\* error in its catch block; the refill has no rejection handler.
AfterBatchFailed(b) ==
    IF batches[b].kind = "init"
    THEN /\ initPc' = [initPc EXCEPT ![batches[b].owner] = Ended(batches[b].owner, "failed")]
         /\ UNCHANGED <<hasTriggeredRefill, isReady>>
    ELSE UNCHANGED <<hasTriggeredRefill, initPc, isReady>>

\* Promise.all(signingPromises) resolves: the new entries are pushed in index
\* order, then the caller continues.
BatchResolve(b) ==
    /\ batches[b].state = "signing"
    /\ transactions' \in
         {Push(transactions,
               PromiseAll(SignBatch(batches[b].start, batches[b].size), order)) :
            order \in CompletionOrders(batches[b].size)}
    /\ batches' = [batches EXCEPT ![b].state = "appended", ![b].owner = 0]
    /\ AfterBatch(b)
    /\ UNCHANGED <<currentIndex, baseNonce, initNonce, mounts, mounted, gameState,
                   currentRound, results, timer, pending, lastTake, chainCount>>

\* One signTransaction call rejects, so Promise.all rejects: nothing is pushed.
BatchReject(b) ==
    /\ batches[b].state = "signing"
    /\ batches' = [batches EXCEPT ![b].state = "rejected", ![b].owner = 0]
    /\ transactions' \in
         {Push(transactions,
               Rejected(SignBatch(batches[b].start, batches[b].size), order, k)) :
            order \in CompletionOrders(batches[b].size), k \in {1, batches[b].size}}
    /\ AfterBatchFailed(b)
    /\ UNCHANGED <<currentIndex, baseNonce, initNonce, mounts, mounted,
                   gameState, currentRound, results, timer, pending, lastTake,
                   chainCount>>

\* ------------------------------------------------------ getNextTransaction
\* Faulty variant: the exhaustion test compares with > instead of >=.
PoolExhaustedOffByOne == currentIndex > Len(transactions)

\* Faulty variant: the exhaustion test is missing.
PoolNeverExhausted == FALSE

\* The exhaustion test of getNextTransaction.
PoolExhausted == currentIndex >= Len(transactions)

\* Faulty variant: no refill is ever dispatched.
ShouldRefillNever(idx) == FALSE

\* Faulty variant: the refill test does not look at the guard.
ShouldRefillUnguarded(idx) == idx % LowWaterMark = 0

\* The refill test, made on the cursor after it has advanced.
ShouldRefill(idx) == idx % LowWaterMark = 0 /\ ~hasTriggeredRefill

\* Faulty variant: the starting nonce is counted from the cursor, not from the length.
NextNonceFromCursor == baseNonce + currentIndex

\* The starting nonce of a refill, computed when it is triggered.
NextNonce == baseNonce + Len(transactions)

\* pool.transactions[i] for the index i counted from 0: reading past the end
\* of an array yields undefined.
Undefined == [nonce |-> -1, data |-> 0]
EntryAt(i) == IF i + 1 \in DOMAIN transactions THEN transactions[i + 1] ELSE Undefined

\* getNextTransaction() when it returns: the entry at the cursor is handed
\* out, the cursor advances, and a refill is started if the test says so.
TakeOk ==
    /\ ~PoolExhausted
    /\ lastTake' = [status |-> "ok", nonce |-> EntryAt(currentIndex).nonce]
    /\ currentIndex' = currentIndex + 1
    /\ IF ShouldRefill(currentIndex + 1)
       THEN /\ hasTriggeredRefill' = TRUE
            /\ batches' = Append(batches, Batch("refill", 0, NextNonce, RefillBatchSize))
       ELSE UNCHANGED <<hasTriggeredRefill, batches>>
    /\ UNCHANGED <<transactions, baseNonce>>

\* getNextTransaction() when it throws 'No pre-signed transactions available'.
TakeThrows ==
    /\ PoolExhausted
    /\ lastTake' = [status |-> "exhausted", nonce |-> -1]
    /\ UNCHANGED <<poolVars, batches>>

\* ------------------------------------------------------------- the rounds
Result(attempt, reactionTime, txTime, failed) ==
    [attempt |-> attempt, reactionTime |-> reactionTime, txTime |-> txTime,
     totalTime |-> reactionTime + txTime, failed |-> failed]

\* Faulty variant: the game goes on after the fifth round.
RecordRoundOneTooMany(res, round) ==
    /\ results' = Append(results, res)
    /\ IF round > RoundsPerGame
       THEN /\ gameState' = FINISHED
            /\ UNCHANGED <<currentRound, timer>>
       ELSE /\ currentRound' = currentRound + 1
            /\ gameState' = WAITING
            /\ timer' = TRUE

\* Faulty variant: a failed round ends the game.
RecordRoundStopsOnFailure(res, round) ==
    /\ results' = Append(results, res)
    /\ IF round >= RoundsPerGame \/ res.failed
       THEN /\ gameState' = FINISHED
            /\ UNCHANGED <<currentRound, timer>>
       ELSE /\ currentRound' = currentRound + 1
            /\ gameState' = WAITING
            /\ timer' = TRUE

\* The end of a round in handleClick, the same in the try and the catch
\* branch: the result is recorded, then the game finishes or the next round
\* starts (startRound sets WAITING and starts the frame loop).
RecordRound(res, round) ==
    /\ results' = Append(results, res)
    /\ IF round >= RoundsPerGame
       THEN /\ gameState' = FINISHED
            /\ UNCHANGED <<currentRound, timer>>
       ELSE /\ currentRound' = currentRound + 1
            /\ gameState' = WAITING
            /\ timer' = TRUE

\* handleClick in IDLE, FINISHED or TOO_EARLY: a new game starts.
ClickStart ==
    /\ mounted /\ isReady
    /\ gameState \in {IDLE, FINISHED, TOO_EARLY}
    /\ currentRound' = 1
    /\ results' = <<>>
    /\ gameState' = WAITING
    /\ timer' = TRUE
    /\ UNCHANGED <<poolVars, batches, initVars, mounts, mounted, isReady, pending,
                   lastTake, chainCount>>

\* Faulty variant: the too-early branch leaves the frame loop running.
ClickTooEarlyKeepsTimer ==
    /\ mounted /\ isReady
    /\ gameState = WAITING
    /\ gameState' = TOO_EARLY
    /\ currentRound' = 0
    /\ results' = <<>>
    /\ UNCHANGED <<poolVars, batches, initVars, mounts, mounted, isReady, timer,
                   pending, lastTake, chainCount>>

\* handleClick in WAITING: clicked too early, the timers are cleared.
ClickTooEarly ==
    /\ mounted /\ isReady
    /\ gameState = WAITING
    /\ timer' = FALSE
    /\ gameState' = TOO_EARLY
    /\ currentRound' = 0
    /\ results' = <<>>
    /\ UNCHANGED <<poolVars, batches, initVars, mounts, mounted, isReady, pending,
                   lastTake, chainCount>>

\* Faulty variant: a click while the broadcast is pending counts as a reaction.
ValidReactionWhileClicked == gameState \in {READY, CLICKED}

\* The branch of handleClick that measures a reaction: gameState === 'ready'.
ValidReaction == gameState = READY

\* handleClick in READY, up to its await: the reaction time is computed, the
\* state becomes CLICKED and the next entry is taken and sent.
ClickReady(elapsed) ==
    /\ mounted /\ isReady
    /\ ValidReaction
    /\ TakeOk
    /\ gameState' = CLICKED
    /\ pending' = pending \cup
         {[owner |-> mounts, round |-> currentRound, reaction |-> elapsed - ADJUSTMENT,
           tx |-> EntryAt(currentIndex)]}
    /\ UNCHANGED <<initVars, mounts, mounted, isReady, currentRound, results, timer,
                   chainCount>>

\* handleClick in READY when getNextTransaction throws: the catch block
\* records the round as failed; nothing is sent.
ClickReadyExhausted(elapsed) ==
    /\ mounted /\ isReady
    /\ ValidReaction
    /\ TakeThrows
    /\ RecordRound(Result(currentRound, elapsed - ADJUSTMENT, 0, TRUE), currentRound)
    /\ UNCHANGED <<initVars, mounts, mounted, isReady, pending, chainCount>>

\* handleClick while the page is initializing or a broadcast is pending: no
\* branch applies.
ClickIgnored ==
    /\ mounted
    /\ ~isReady \/ gameState = CLICKED
    /\ UNCHANGED vars

\* checkTime finds the random delay elapsed: the box turns green.
TimerFires ==
    /\ mounted
    /\ timer
    /\ timer' = FALSE
    /\ gameState' = READY
    /\ UNCHANGED <<poolVars, batches, initVars, mounts, mounted, isReady, currentRound,
                   results, pending, lastTake, chainCount>>

\* ------------------------------------------------------------- the ledger
\* The ledger accepts a transaction only with the nonce it expects next.
Accepts(tx) == tx.nonce = chainCount

\* What handleClick does after its await, on the instance that sent `p`.
AfterBroadcast(p, res) ==
    IF Live(p.owner)
    THEN /\ RecordRound(res, p.round)
         /\ UNCHANGED isReady
    ELSE UNCHANGED pageVars

\* eth_sendRawTransactionSync returns the receipt.
BroadcastConfirmed(p, txTime) ==
    /\ p \in pending
    /\ Accepts(p.tx)
    /\ chainCount' = chainCount + 1
    /\ pending' = pending \ {p}
    /\ AfterBroadcast(p, Result(p.round, p.reaction, txTime, FALSE))
    /\ UNCHANGED <<poolVars, batches, initVars, mounts, mounted, lastTake>>

\* eth_sendRawTransactionSync fails (rejected nonce, transport error, timeout).
BroadcastFailed(p) ==
    /\ p \in pending
    /\ pending' = pending \ {p}
    /\ AfterBroadcast(p, Result(p.round, p.reaction, 0, TRUE))
    /\ UNCHANGED <<poolVars, batches, initVars, mounts, mounted, lastTake, chainCount>>

\* ------------------------------------------------------------------- spec
Next ==
    \/ Mount
    \/ Unmount
    \/ \E m \in 1..MaxMounts : InitQueryDone(m)
    \/ \E m \in 1..MaxMounts : InitEstimateDone(m)
    \/ \E m \in 1..MaxMounts : InitQueryFail(m)
    \/ \E b \in DOMAIN batches : BatchResolve(b)
    \/ \E b \in DOMAIN batches : BatchReject(b)
    \/ ClickStart
    \/ ClickTooEarly
    \/ \E e \in Elapsed : currentIndex < TakeCap /\ ClickReady(e)
    \/ \E e \in Elapsed : currentIndex < TakeCap /\ ClickReadyExhausted(e)
    \/ ClickIgnored
    \/ TimerFires
    \/ \E p \in pending, t \in TxTimes : BroadcastConfirmed(p, t)
    \/ \E p \in pending : BroadcastFailed(p)

\* A browser session: the page is opened at most MaxMounts times.
Spec == Init /\ [][Next]_vars

\* The sessions in which no remote call fails unless the ledger refuses the
\* nonce, and the player clicks only to start a game and when the box is green.
\* Every visit of the page may go on until the cursor reaches MaxTakes.
NextQuiet ==
    \/ Mount
    \/ Unmount
    \/ \E m \in 1..MaxMounts : InitQueryDone(m)
    \/ \E m \in 1..MaxMounts : InitEstimateDone(m)
    \/ \E b \in DOMAIN batches : BatchResolve(b)
    \/ ClickStart
    \/ \E e \in Elapsed : currentIndex < MaxTakes /\ ClickReady(e)
    \/ TimerFires
    \/ \E p \in pending, t \in TxTimes : BroadcastConfirmed(p, t)
    \/ \E p \in pending : ~Accepts(p.tx) /\ BroadcastFailed(p)

SpecQuiet == Init /\ [][NextQuiet]_vars

\* One visit of the page that is not left.  A game is started only while
\* MaxTakes leaves room for its five rounds, and is then played without a cap.
NextLive ==
    \/ Mount
    \/ \E m \in 1..MaxMounts : InitQueryDone(m)
    \/ \E m \in 1..MaxMounts : InitEstimateDone(m)
    \/ \E m \in 1..MaxMounts : InitQueryFail(m)
    \/ \E b \in DOMAIN batches : BatchResolve(b)
    \/ \E b \in DOMAIN batches : BatchReject(b)
    \/ currentIndex + RoundsPerGame <= MaxTakes /\ ClickStart
    \/ ClickTooEarly
    \/ \E e \in Elapsed : ClickReady(e)
    \/ \E e \in Elapsed : ClickReadyExhausted(e)
    \/ ClickIgnored
    \/ TimerFires
    \/ \E p \in pending, t \in TxTimes : BroadcastConfirmed(p, t)
    \/ \E p \in pending : BroadcastFailed(p)

\* The frame loop of startRound keeps running until the delay has elapsed,
\* the player clicks once the box is green, and every broadcast returns or
\* fails.
SpecLive ==
    /\ Init /\ [][NextLive]_vars
    /\ WF_vars(TimerFires)
    /\ WF_vars(\E e \in Elapsed : ClickReady(e) \/ ClickReadyExhausted(e))
    /\ WF_vars(\E p \in pending : BroadcastFailed(p) \/ \E t \in TxTimes : BroadcastConfirmed(p, t))

\* =================================================================== claims
\* The refill batches whose promise is pending.
RefillsInFlight == {b \in DOMAIN batches : batches[b].kind = "refill" /\ batches[b].state = "signing"}

\* The preSignBatch calls made for a refill, in the order they were made.
Refills == SelectSeq(batches, LAMBDA b : b.kind = "refill")

\* The nonces a preSignBatch call covers.
Range(b) == b.start .. (b.start + b.size - 1)

\* This step is a valid click: handleClick called getNextTransaction.
Taking == gameState = READY /\ gameState' \in {CLICKED, WAITING, FINISHED}

\* This step made getNextTransaction start a refill.
RefillStarted ==
    /\ Len(batches') = Len(batches) + 1
    /\ batches'[Len(batches')].kind = "refill"

\* C1: in every reachable state the entry at index i of the pool (from 0) was
\* signed with nonce baseNonce + i.
C1_EntryNonceIsBasePlusIndex ==
    \A i \in DOMAIN transactions : transactions[i].nonce = baseNonce + (i - 1)

\* C2: no two entries ever appended to the pool carry the same nonce, and no
\* two signing batches, initial or refill, are issued for overlapping ranges
\* of nonces.
C2_NoncesNeverReused ==
    /\ \A i, j \in DOMAIN transactions :
         i # j => transactions[i].nonce # transactions[j].nonce
    /\ \A a, b \in DOMAIN batches :
         a # b => Range(batches[a]) \cap Range(batches[b]) = {}

\* C3: whenever an in-flight refill finishes, by its signing succeeding or by
\* its signing failing, hasTriggeredRefill is false afterwards.
C3_GuardReleasedWhenRefillEnds ==
    [][\A b \in RefillsInFlight :
         batches'[b].state # "signing" => ~hasTriggeredRefill']_vars

\* C4: once the latest refill has failed, the next take() that brings the
\* cursor to a multiple of the low-water mark starts a new refill, with the
\* starting nonce of the failed one.
C4_FailedRefillIsRetried ==
    [][(/\ Refills # <<>>
        /\ Refills[Len(Refills)].state = "rejected"
        /\ currentIndex' = currentIndex + 1
        /\ currentIndex' % LowWaterMark = 0)
       => (/\ RefillStarted
           /\ batches'[Len(batches')].start = Refills[Len(Refills)].start)]_vars

\* C5: at most one refill batch is being produced at any time; a take() that
\* brings the cursor to a multiple of 5 while the guard is true starts no
\* refill, and a refill is started only by a take() that finds the guard false
\* and sets it true in the same step.
C5_AtMostOneRefillInFlight ==
    [][/\ Cardinality(RefillsInFlight') <= 1
       /\ (Taking /\ hasTriggeredRefill) => ~RefillStarted
       /\ RefillStarted => (/\ Taking
                            /\ currentIndex' = currentIndex + 1
                            /\ ~hasTriggeredRefill
                            /\ hasTriggeredRefill')]_vars

\* C5 witness: the cursor has reached 10 while the refill started at 5 is
\* still being signed, and no second refill was started.
C5_Witness ==
    /\ currentIndex = 2 * LowWaterMark
    /\ hasTriggeredRefill
    /\ Len(Refills) = 1
    /\ Cardinality(RefillsInFlight) = 1

\* C6: take() returns the entry at the cursor and advances the cursor by
\* exactly one, so the nonces returned by two successive successful take()
\* calls differ by exactly 1.
C6_SuccessiveTakesDifferByOne ==
    [][currentIndex' # currentIndex =>
         (/\ currentIndex' = currentIndex + 1
          /\ lastTake' = [status |-> "ok", nonce |-> EntryAt(currentIndex).nonce]
          /\ currentIndex >= 1 =>
               EntryAt(currentIndex).nonce = EntryAt(currentIndex - 1).nonce + 1)]_vars

\* C7: when the cursor equals the pool length take() fails with the exhaustion
\* error and changes nothing of the pool and starts no refill; when it is below
\* the pool length take() succeeds.  So a pool to which nothing is appended
\* serves exactly Len(transactions) calls and fails every later one.
C7_ExhaustedTakeChangesNothing ==
    [][Taking =>
         IF currentIndex = Len(transactions)
         THEN /\ lastTake'.status = "exhausted"
              /\ UNCHANGED <<transactions, currentIndex, baseNonce, hasTriggeredRefill>>
              /\ batches' = batches
              /\ pending' = pending
         ELSE /\ currentIndex < Len(transactions)
              /\ lastTake'.status = "ok"
              /\ currentIndex' = currentIndex + 1
              /\ transactions' = transactions]_vars

\* C7 witness: the pool of 10 entries has been served 10 times, the refill
\* appended nothing, and the next call has failed.
C7_Witness ==
    /\ Len(transactions) = InitialBatchSize
    /\ currentIndex = InitialBatchSize
    /\ lastTake.status = "exhausted"
    /\ results # <<>>
    /\ results[Len(results)].failed

\* C8: in every reachable state 0 <= currentIndex <= Len(transactions).
C8_CursorWithinPool ==
    0 <= currentIndex /\ currentIndex <= Len(transactions)

\* C8 witness: the cursor has caught up with the pool while the refill is
\* still in flight.
C8_Witness ==
    /\ currentIndex = Len(transactions)
    /\ currentIndex > 0
    /\ RefillsInFlight # {}

\* C9: a refill is given the starting nonce baseNonce + Len(transactions) as
\* read when it is triggered, and the first entry it appends has the nonce of
\* the last entry already in the pool plus 1.
C9_RefillContinuesThePool ==
    [][/\ RefillStarted =>
            batches'[Len(batches')].start = baseNonce + Len(transactions)
       /\ \A b \in RefillsInFlight :
            batches'[b].state = "appended" =>
              transactions'[Len(transactions) + 1].nonce =
                transactions[Len(transactions)].nonce + 1]_vars

C11_RejectedRefillAppendsNothing ==
    [][\A b \in RefillsInFlight :
         batches'[b].state = "rejected" =>
           /\ transactions' = transactions
           /\ currentIndex' = currentIndex
           /\ lastTake' = lastTake
           /\ pending' = pending
           /\ pageVars' = pageVars
           /\ chainCount' = chainCount]_vars

\* A refill started by the fifth take has rejected while that round's
\* broadcast is still pending.
C11_Witness ==
    /\ \E b \in DOMAIN batches : batches[b].kind = "refill" /\ batches[b].state = "rejected"
    /\ gameState = CLICKED
    /\ currentIndex = LowWaterMark
    /\ Len(transactions) = InitialBatchSize
    /\ \E p \in pending : Live(p.owner) /\ p.round = currentRound

\* The page is mounted and its init() has not completed successfully.
Initializing == mounted /\ initPc[mounts] # "done"

\* C12: while the init() of the mounted page is pending or has failed, isReady
\* is false and the game is IDLE, and a step that keeps the page mounted
\* leaves the game IDLE, takes no entry and sends nothing; a step in which an
\* init() fails (in its queries or in its signing batch) appends nothing, and
\* the pool holds the entries of the resolved batches only.
C12_NoPlayBeforeInit ==
    [][/\ Initializing =>
            /\ ~isReady /\ gameState = IDLE /\ currentRound = 0 /\ results = <<>>
            /\ mounted' =>
                 /\ gameState' = IDLE
                 /\ currentIndex' = currentIndex
                 /\ lastTake' = lastTake
                 /\ pending' \subseteq pending
       /\ \A m \in DOMAIN initPc :
            initPc[m] \in {"query", "estimate"} /\ initPc'[m] \in {"failed", "gone"}
              => transactions' = transactions
       /\ \A b \in DOMAIN batches :
            batches[b].kind = "init" /\ batches[b].state = "signing"
              /\ batches'[b].state = "rejected"
              => transactions' = transactions
       /\ Len(transactions') = InitialBatchSize * Cardinality({b \in DOMAIN batches' : batches'[b].state = "appended"})
      ]_vars

\* The signing batch of the mounted page's init() has failed on an empty pool.
C12_Witness ==
    /\ mounted /\ initPc[mounts] = "failed"
    /\ \E b \in DOMAIN batches : batches[b].kind = "init" /\ batches[b].state = "rejected"
    /\ ~isReady /\ gameState = IDLE
    /\ transactions = <<>>

\* The Result of a failed round.
FailedResult(round, reaction) ==
    [attempt |-> round, reactionTime |-> reaction, txTime |-> 0,
     totalTime |-> reaction, failed |-> TRUE]

\* Play goes on after round `round`: the game is FINISHED after the fifth
\* round, otherwise the next round starts waiting.
PlayContinues(round) ==
    IF round >= RoundsPerGame
    THEN gameState' = FINISHED /\ currentRound' = currentRound
    ELSE gameState' = WAITING /\ currentRound' = round + 1 /\ timer'

\* C13: a valid click that finds the pool exhausted, and a broadcast of the
\* mounted page that returns with a failure, each append exactly one Result to
\* results, with the round's number, failed = true, txTime = 0 and the
\* reaction time measured at the click (elapsed time minus ADJUSTMENT), and
\* play continues with the next round, or is FINISHED after the fifth round.
C13_FailedRoundIsRecorded ==
    [][/\ mounted' /\ gameState = READY /\ PoolExhausted /\ gameState' # READY =>
            \E e \in Elapsed :
               /\ results' = Append(results, FailedResult(currentRound, e - ADJUSTMENT))
               /\ PlayContinues(currentRound)
       /\ \A p \in pending' \ pending :
            mounted' => /\ p.round = currentRound
                        /\ \E e \in Elapsed : p.reaction = e - ADJUSTMENT
       /\ \A p \in pending :
            Live(p.owner) /\ mounted' /\ p \notin pending' /\ chainCount' = chainCount =>
               /\ gameState = CLICKED /\ p.round = currentRound
               /\ results' = Append(results, FailedResult(p.round, p.reaction))
               /\ PlayContinues(p.round)]_vars

\* A game has finished with a fifth round whose entry was taken and whose
\* broadcast failed, after an earlier failed round that did not end the game.
C13_Witness ==
    /\ gameState = FINISHED
    /\ Len(results) = RoundsPerGame
    /\ lastTake.status = "ok"
    /\ \E e \in Elapsed :
         results[RoundsPerGame] = FailedResult(RoundsPerGame, e - ADJUSTMENT)
    /\ results[1].failed

\* C14: in the step in which a batch preSignBatch(start, count) resolves, the
\* pool keeps its entries and gains exactly count entries after them, the k-th
\* of which has nonce start + k - 1, in whatever order the signing calls
\* settled.
C14_BatchAppendedInIndexOrder ==
    [][\A b \in DOMAIN batches :
         batches[b].state = "signing" /\ batches'[b].state = "appended" =>
           /\ Len(transactions') = Len(transactions) + batches[b].size
           /\ SubSeq(transactions', 1, Len(transactions)) = transactions
           /\ \A k \in 1..batches[b].size :
                transactions'[Len(transactions) + k].nonce = batches[b].start + k - 1]_vars

\* A refill batch has been appended after the initial batch.
C14_Witness ==
    /\ Len(transactions) = InitialBatchSize + RefillBatchSize
    /\ \E b \in DOMAIN batches :
         /\ batches[b].kind = "refill" /\ batches[b].state = "appended"
         /\ transactions[InitialBatchSize + 1].nonce = batches[b].start
         /\ transactions[Len(transactions)].nonce = batches[b].start + RefillBatchSize - 1

\* C15: every entry handed out by take() has the nonce the ledger expects
\* next: in a step in which a valid click takes an entry, the nonce of that
\* entry equals the ledger's transaction count of the account.
C15_TakenNonceIsLedgerCount ==
    [][Taking /\ lastTake'.status = "ok" => lastTake'.nonce = chainCount]_vars

\* C16: the pool is append-only and the cursor never decreases: every step
\* keeps the existing entries as a prefix of the pool and leaves the cursor
\* where it was or further on; the step in which a refill resolves appends
\* its entries and clears the guard, and leaves the cursor, baseNonce, the
\* game state, the pending broadcasts and the ledger unchanged.
C16_AppendOnlyMonotonicCursor ==
    [][/\ Len(transactions') >= Len(transactions)
       /\ SubSeq(transactions', 1, Len(transactions)) = transactions
       /\ currentIndex' >= currentIndex
       /\ \A b \in RefillsInFlight :
            batches'[b].state = "appended" =>
              /\ Len(transactions') = Len(transactions) + batches[b].size
              /\ ~hasTriggeredRefill'
              /\ currentIndex' = currentIndex
              /\ baseNonce' = baseNonce
              /\ pageVars' = pageVars
              /\ pending' = pending
              /\ lastTake' = lastTake
              /\ chainCount' = chainCount]_vars

\* A refill has resolved in the middle of a game: the pool holds two batches,
\* the cursor is past the low-water mark and the guard is clear.
C16_Witness ==
    /\ \E b \in DOMAIN batches : batches[b].kind = "refill" /\ batches[b].state = "appended"
    /\ Len(transactions) = InitialBatchSize + RefillBatchSize
    /\ currentIndex > LowWaterMark
    /\ ~hasTriggeredRefill
    /\ gameState \in {WAITING, READY, CLICKED}

\* C17: every init() primes an empty pool: in the step in which a page mounts
\* and its init() starts, the pool has no entries, cursor 0 and a clear guard;
\* and in the step in which an init()'s signing batch resolves, the pool
\* then holds exactly the 10 entries of that batch, all unused, the first
\* with the transaction count that init() read.
C17_InitPrimesEmptyPool ==
    [][/\ mounted' /\ ~mounted =>
            transactions = <<>> /\ currentIndex = 0 /\ ~hasTriggeredRefill
       /\ \A b \in DOMAIN batches :
            batches[b].kind = "init" /\ batches[b].state = "signing"
              /\ batches'[b].state = "appended" =>
                /\ Len(transactions') = InitialBatchSize
                /\ currentIndex' = 0
                /\ transactions'[1].nonce = batches[b].start]_vars

\* No signing call of a refill has failed so far.
NoRefillFailed ==
    \A b \in DOMAIN batches : batches[b].kind = "refill" => batches[b].state # "rejected"

\* C18: when no refill has failed and no refill is still in flight, the
\* initialized page whose box is green has at least one unused entry
\* (length - cursor >= 1), and a valid click made then takes an entry and does
\* not raise exhaustion.
C18_NoExhaustionWithPromptRefills ==
    [][mounted /\ isReady /\ gameState = READY /\ NoRefillFailed /\ RefillsInFlight = {} =>
         /\ Len(transactions) - currentIndex >= 1
         /\ gameState' \in {CLICKED, WAITING, FINISHED} =>
              lastTake'.status = "ok" /\ currentIndex' = currentIndex + 1]_vars

\* The third game of a visit is about to take its first entry: ten entries
\* were taken and both refills dispatched so far have resolved.
C18_Witness ==
    /\ mounted /\ isReady /\ gameState = READY
    /\ currentIndex = InitialBatchSize
    /\ Len(transactions) = InitialBatchSize + 2 * RefillBatchSize
    /\ NoRefillFailed /\ RefillsInFlight = {}

\* C19: a round takes at most one entry and records exactly one Result: the
\* cursor moves only by one, in a step from READY to CLICKED that sends one
\* broadcast; while the state is CLICKED exactly one broadcast of the page is
\* pending, and no step of the mounted page takes an entry, sends a broadcast
\* or, unless the state leaves CLICKED, touches results or the round; results
\* grows by one Result at a time, numbered with the current round, and never
\* holds two Results with the same attempt number.
C19_OneEntryOneResultPerRound ==
    [][/\ currentIndex' # currentIndex =>
            /\ gameState = READY /\ gameState' = CLICKED
            /\ currentIndex' = currentIndex + 1
            /\ Cardinality(pending' \ pending) = 1
       /\ gameState' = CLICKED =>
            Cardinality({p \in pending' : p.owner = mounts' /\ p.round = currentRound'}) = 1
       /\ gameState = CLICKED /\ mounted' =>
            /\ currentIndex' = currentIndex
            /\ lastTake' = lastTake
            /\ pending' \subseteq pending
            /\ gameState' = CLICKED => results' = results /\ currentRound' = currentRound
       /\ Len(results') > Len(results) =>
            /\ gameState \in {READY, CLICKED}
            /\ Len(results') = Len(results) + 1
            /\ SubSeq(results', 1, Len(results)) = results
            /\ results'[Len(results')].attempt = currentRound
       /\ \A i, j \in DOMAIN results' :
            i # j => results'[i].attempt # results'[j].attempt]_vars

\* A first game has finished: five Results, five entries taken, nothing
\* pending.
C19_Witness ==
    /\ gameState = FINISHED
    /\ Len(results) = RoundsPerGame
    /\ currentIndex = RoundsPerGame
    /\ pending = {}
    /\ \A i \in DOMAIN results : ~results[i].failed

\* A game is being played.
InGame == gameState \in {WAITING, READY, CLICKED}

\* The shape of a game: results numbered 1, 2, ... in order; during a game
\* the round is between 1 and 5 and the earlier rounds are recorded; FINISHED
\* exactly with five Results.
GameShape ==
    /\ \A i \in DOMAIN results : results[i].attempt = i
    /\ InGame => (currentRound \in 1..RoundsPerGame /\ Len(results) = currentRound - 1)
    /\ (gameState = FINISHED) <=> (Len(results) = RoundsPerGame)
    /\ (gameState = FINISHED) => (currentRound = RoundsPerGame)

\* C20: a game is exactly five rounds: while a game is played the round is
\* between 1 and 5 and results holds the Results of the rounds before it,
\* numbered 1, 2, ... in order; the state is FINISHED exactly when results
\* holds five Results, those of attempts 1..5 in order; and a game that is
\* being played eventually reaches FINISHED or TOO_EARLY.
C20_GameIsFiveRounds ==
    /\ []GameShape
    /\ (InGame ~> gameState \in {FINISHED, TOO_EARLY})

\* The second game of the visit has finished.
C20_Witness ==
    /\ gameState = FINISHED
    /\ [i \in DOMAIN results |-> results[i].attempt] = <<1, 2, 3, 4, 5>>
    /\ currentIndex = 2 * RoundsPerGame

\* C21: a click while the game is WAITING moves it to TOO_EARLY with results
\* emptied, round 0 and the green-light timer cancelled, and takes no entry:
\* the pool, the batches, the pending broadcasts and the ledger are unchanged.
\* TOO_EARLY is entered only from WAITING, and while the page stays mounted
\* the game leaves WAITING only to READY or TOO_EARLY and leaves TOO_EARLY only
\* by the click that starts a new game (WAITING, round 1, no results); until
\* then no timer is running, results stay empty, the round stays 0 and no
\* entry is taken or sent.
C21_TooEarlyCancelsRound ==
    [][/\ gameState = WAITING /\ mounted' =>
            /\ gameState' \in {WAITING, READY, TOO_EARLY}
            /\ gameState' = TOO_EARLY =>
                 /\ results' = <<>> /\ currentRound' = 0 /\ ~timer'
                 /\ poolVars' = poolVars
                 /\ batches' = batches
                 /\ pending' = pending
                 /\ lastTake' = lastTake
                 /\ chainCount' = chainCount
       /\ gameState' = TOO_EARLY => gameState \in {WAITING, TOO_EARLY}
       /\ gameState = TOO_EARLY /\ mounted' =>
            /\ gameState' \in {TOO_EARLY, WAITING}
            /\ gameState' = TOO_EARLY =>
                 /\ results' = <<>> /\ currentRound' = 0 /\ ~timer'
                 /\ currentIndex' = currentIndex
                 /\ pending' \subseteq pending
            /\ gameState' = WAITING =>
                 results' = <<>> /\ currentRound' = 1 /\ timer']_vars

\* The player clicked too early in the third round of a first game: the two
\* recorded rounds are gone and no timer is running.
C21_Witness ==
    /\ mounted /\ mounts = 1
    /\ gameState = TOO_EARLY
    /\ results = <<>> /\ currentRound = 0 /\ ~timer
    /\ currentIndex = 2
    /\ lastTake.status = "ok"
    /\ pending = {}

====
